---- MODULE Spec2Model ----
(***************************************************************************)
(* Searchle (src/searchle/src/App.js): the grid resolver, the attempt      *)
(* scorer, the session state machine with its persisted record, and the    *)
(* puzzle generator.                                                       *)
(*                                                                         *)
(* Words are sequences of one-letter strings, a coordinate key `${x},${y}` *)
(* is the pair <<x, y>>, a JavaScript object used as a map is a function   *)
(* whose DOMAIN is its key set.                                            *)
(***************************************************************************)
EXTENDS Integers, Sequences, FiniteSets, TLC

VARIABLES
    puzzle,      \* useState(null), line 319
    loading,     \* useState(true), line 320
    entries,     \* useState({}), line 380
    attempts,    \* useState(0), line 381
    activeCell,  \* useState(null), line 383
    cellStates,  \* useState({}), line 384
    gameOver,    \* useState(false), line 385
    gameWon,     \* useState(false), line 386
    storage,     \* localStorage[GAME_CONFIG.STORAGE_KEY]
    effects,     \* passive effects of the last commit that have not run yet
    queued,      \* state updates scheduled by an effect, applied by the next render
    genBy,       \* which getNewPuzzle closure awaits / delivered the puzzle
    \* one call of generatePuzzle, lines 11-83
    gpc,                      \* the await the call is suspended at
    horizontalWord,           \* line 18
    requiredVerticalLengths,  \* lines 25-26
    usedWords,                \* line 22
    promises,                 \* line 29: what each position's callback returned
    progress,                 \* the last onProgress report (setProgress, line 321)
    returned,                 \* the value generatePuzzle resolved with
    \* one call of getLetterPositions, lines 88-115
    rpc,         \* "call" before the body runs, "return" after
    resPuzzle,   \* the argument p
    resCells     \* the array returned

appVars == <<puzzle, loading, entries, attempts, activeCell, cellStates,
             gameOver, gameWon, storage, effects, queued, genBy>>

genVars == <<gpc, horizontalWord, requiredVerticalLengths, usedWords, promises,
             progress, returned>>

resVars == <<rpc, resPuzzle, resCells>>

vars == <<appVars, genVars, resVars>>

session == <<entries, attempts, activeCell, cellStates, gameOver, gameWon>>

----------------------------------------------------------------------------
(* Configuration, line 9 *)

MAX_ATTEMPTS == 6

(* Bounds of the model *)

\* attempts is only ever incremented; submits are cut off at this value
AttemptsCap == 7

----------------------------------------------------------------------------
(* Values *)

NoPuzzle == [none |-> TRUE]            \* puzzle === null
NoCell == <<>>                         \* activeCell === null
EmptyMap == [k \in {} |-> ""]          \* {}
Absent == [kind |-> "absent"]          \* getItem returns null
Corrupt == [kind |-> "corrupt"]        \* a stored string JSON.parse rejects
NoUpdate == [kind |-> "none"]

Alphabet == {"A", "B", "C", "D", "E", "F", "G", "H", "I", "J", "K", "L", "M",
             "N", "O", "P", "Q", "R", "S", "T", "U", "V", "W", "X", "Y", "Z"}

\* entries[key] || ""
Get(map, key) == IF key \in DOMAIN map THEN map[key] ELSE ""

\* new Set(word.split(""))
LetterSet(word) == {word[i] : i \in 1..Len(word)}

\* mutant of IndexOf: lastIndexOf, the last place of the letter
LastIndexOf(word, ch) ==
    IF \E i \in 1..Len(word) : word[i] = ch
    THEN (CHOOSE i \in 1..Len(word) :
              word[i] = ch /\ \A j \in (i + 1)..Len(word) : word[j] # ch) - 1
    ELSE -1

\* word.indexOf(ch), 0-based, -1 when absent
IndexOf(word, ch) ==
    IF \E i \in 1..Len(word) : word[i] = ch
    THEN (CHOOSE i \in 1..Len(word) :
              word[i] = ch /\ \A j \in 1..(i - 1) : word[j] # ch) - 1
    ELSE -1

Key(c) == <<c.x, c.y>>

----------------------------------------------------------------------------
(* Grid coordinate resolver, lines 88-115 *)

\* lines 93-95: the horizontal word's letters at (x + i, y)
HorizontalCells(p) ==
    [i \in 1..Len(p.horizontal.word) |->
        [letter |-> p.horizontal.word[i],
         x |-> p.horizontal.x + (i - 1),
         y |-> p.horizontal.y]]

\* lines 98-110: one vertical's letters, none when the anchor letter is missing
VerticalCells(p, v) ==
    LET anchorLetter == p.horizontal.word[v.intersectIndex + 1]
        anchorX == p.horizontal.x + v.intersectIndex
        anchorY == p.horizontal.y
        intersectYIndex == IndexOf(v.word, anchorLetter)
    IN  IF intersectYIndex = -1
        THEN <<>>
        ELSE [i \in 1..Len(v.word) |->
                 [letter |-> v.word[i],
                  x |-> anchorX,
                  y |-> anchorY - (intersectYIndex - (i - 1))]]

RECURSIVE PushVerticals(_, _, _)
PushVerticals(p, idx, cells) ==
    IF idx > Len(p.verticals)
    THEN cells
    ELSE PushVerticals(p, idx + 1, cells \o VerticalCells(p, p.verticals[idx]))

\* line 113: unique.set(key, c) keeps the place of the key's first insertion
\* and the value of its last
MapSet(unique, c) ==
    IF \E i \in 1..Len(unique) : Key(unique[i]) = Key(c)
    THEN LET i == CHOOSE i \in 1..Len(unique) : Key(unique[i]) = Key(c)
         IN  [unique EXCEPT ![i] = c]
    ELSE Append(unique, c)

RECURSIVE UniqueValues(_, _, _)
UniqueValues(cells, idx, unique) ==
    IF idx > Len(cells)
    THEN unique
    ELSE UniqueValues(cells, idx + 1, MapSet(unique, cells[idx]))

getLetterPositions(p) ==
    UniqueValues(PushVerticals(p, 1, HorizontalCells(p)), 1, <<>>)

\* the puzzles a generation delivers: the generator's shape (horizontal word
\* at x = 0, y = 4, lines 79-82) on words short enough to enumerate entries
PuzzleA == [horizontal |-> [word |-> <<"A", "B">>, x |-> 0, y |-> 4],
            verticals |-> << [word |-> <<"B", "A">>, intersectIndex |-> 0] >>]
PuzzleB == [horizontal |-> [word |-> <<"A">>, x |-> 0, y |-> 4],
            verticals |-> << [word |-> <<"A", "B">>, intersectIndex |-> 0] >>]
PuzzleC == [horizontal |-> [word |-> <<"A">>, x |-> 0, y |-> 4],
            verticals |-> << [word |-> <<"B", "A">>, intersectIndex |-> 0] >>]
Puzzles == {PuzzleA, PuzzleB, PuzzleC}

\* line 359: useMemo keeps the cells of the delivered puzzle
MemoCells == [p \in Puzzles |-> getLetterPositions(p)]

initialCells(p) ==
    IF p = NoPuzzle
    THEN <<>>
    ELSE IF p \in DOMAIN MemoCells THEN MemoCells[p] ELSE getLetterPositions(p)

\* lines 396 and 420: getLetterPositions(puzzle).map((c) => c.letter).join("")
PuzzleKey(p) ==
    LET cells == getLetterPositions(p)
    IN  [i \in 1..Len(cells) |-> cells[i].letter]

\* lines 375-377: cells sorted by y, then x
Before(a, b) == IF a.y = b.y THEN a.x < b.x ELSE a.y < b.y

SortCells(cells) ==
    LET rank(i) == Cardinality({j \in 1..Len(cells) : Before(cells[j], cells[i])})
    IN  [n \in 1..Len(cells) |->
            cells[CHOOSE i \in 1..Len(cells) : rank(i) = n - 1]]

\* line 375: useMemo keeps the sorted cells of the delivered puzzle
MemoSorted == [p \in Puzzles |-> SortCells(MemoCells[p])]

sortedCells(p) ==
    IF p \in DOMAIN MemoSorted THEN MemoSorted[p] ELSE SortCells(initialCells(p))

----------------------------------------------------------------------------
(* Attempt scorer, lines 479-535 *)

\* lines 495-497 and 511-513
Score(letter, solution, letterSet) ==
    IF letter = solution
    THEN [state |-> "correct", letter |-> letter]
    ELSE IF letter # "" /\ letter \in letterSet
         THEN [state |-> "present", letter |-> letter]
         ELSE [state |-> "incorrect", letter |-> letter]

\* mutant of IsWin: only the horizontal word's cells are compared
IsWinHorizontalOnly(p, e) ==
    \A i \in 1..Len(p.horizontal.word) :
        Get(e, <<p.horizontal.x + (i - 1), p.horizontal.y>>) = p.horizontal.word[i]

\* lines 486-489
IsWin(p, e) ==
    LET cells == initialCells(p)
    IN  \A i \in 1..Len(cells) : Get(e, Key(cells[i])) = cells[i].letter

\* lines 492-498: horizontalSet is the letter set of the horizontal word (430)
HorizontalCheck(p, e) ==
    LET word == p.horizontal.word
        keyAt(i) == <<p.horizontal.x + (i - 1), p.horizontal.y>>
    IN  [key \in {keyAt(i) : i \in 1..Len(word)} |->
            LET i == CHOOSE i \in 1..Len(word) : keyAt(i) = key
            IN  Score(Get(e, key), word[i], LetterSet(word))]

\* mutant of VerticalCheck: the rows are counted from the position in the
\* horizontal word instead of the anchor letter's place in the vertical word
VerticalCheckMisaligned(p, e, vert) ==
    LET vertWord == vert.word
        ix == p.horizontal.x + vert.intersectIndex
        iy == p.horizontal.y
        intersectIndex == vert.intersectIndex
        keyAt(i) == <<ix, iy - (intersectIndex - (i - 1))>>
    IN  [key \in {keyAt(i) : i \in 1..Len(vertWord)} |->
            LET i == CHOOSE i \in 1..Len(vertWord) : keyAt(i) = key
            IN  Score(Get(e, key), vertWord[i], LetterSet(vertWord))]

\* lines 502-514: one vertical, verticalSets[idx] is its letter set (431-434)
VerticalCheck(p, e, vert) ==
    LET vertWord == vert.word
        ix == p.horizontal.x + vert.intersectIndex
        iy == p.horizontal.y
        intersectIndex == IndexOf(vertWord, p.horizontal.word[vert.intersectIndex + 1])
        keyAt(i) == <<ix, iy - (intersectIndex - (i - 1))>>
    IN  [key \in {keyAt(i) : i \in 1..Len(vertWord)} |->
            LET i == CHOOSE i \in 1..Len(vertWord) : keyAt(i) = key
            IN  Score(Get(e, key), vertWord[i], LetterSet(vertWord))]

\* line 501: forEach over the verticals, later writes replace earlier ones
RECURSIVE VerticalChecks(_, _, _, _)
VerticalChecks(p, e, idx, states) ==
    IF idx > Len(p.verticals)
    THEN states
    ELSE VerticalChecks(p, e, idx + 1,
                        VerticalCheck(p, e, p.verticals[idx]) @@ states)

\* mutant of NewCellStates: the horizontal check runs after the vertical
\* check, so its result stays at a shared cell
NewCellStatesHorizontalLast(p, e) ==
    HorizontalCheck(p, e) @@ VerticalChecks(p, e, 1, HorizontalCheck(p, e))

\* lines 482-515
NewCellStates(p, e) == VerticalChecks(p, e, 1, HorizontalCheck(p, e))

\* lines 531-532
SolutionEntries(p) ==
    LET cells == initialCells(p)
    IN  [key \in {Key(cells[i]) : i \in 1..Len(cells)} |->
            (CHOOSE c \in {cells[i] : i \in 1..Len(cells)} : Key(c) = key).letter]

\* lines 482-535: the submit of a game that is not over
SubmitAccepted(p, s) ==
    LET newAttempts == s.attempts + 1
        isWin == IsWin(p, s.entries)
        scored == [s EXCEPT !.attempts = newAttempts,
                            !.cellStates = NewCellStates(p, s.entries) @@ s.cellStates]
    IN  IF isWin
        THEN [scored EXCEPT !.gameWon = TRUE, !.gameOver = TRUE]
        ELSE IF newAttempts >= MAX_ATTEMPTS
             THEN [scored EXCEPT !.gameOver = TRUE,
                                 !.entries = SolutionEntries(p)]
             ELSE scored

\* mutant of SubmitResult: the game is lost one submit late (> for >=)
SubmitResultLate(p, s) ==
    IF s.gameOver
    THEN s
    ELSE LET r == SubmitAccepted(p, s)
         IN  IF ~r.gameWon /\ r.attempts = MAX_ATTEMPTS
             THEN [r EXCEPT !.gameOver = FALSE, !.entries = s.entries]
             ELSE r

\* mutant of SubmitResult: a letter reported present is consumed, so the next
\* submit no longer finds it
SubmitResultConsuming(p, s) ==
    IF s.gameOver
    THEN s
    ELSE LET r == SubmitAccepted(p, s)
             used(k) == /\ k \in DOMAIN s.cellStates
                        /\ s.cellStates[k].state = "present"
                        /\ s.cellStates[k].letter = r.cellStates[k].letter
         IN  [r EXCEPT !.cellStates =
                 [k \in DOMAIN r.cellStates |->
                     IF used(k)
                     THEN [r.cellStates[k] EXCEPT !.state = "incorrect"]
                     ELSE r.cellStates[k]]]

\* mutant of SubmitResult: the early return of line 480 is missing
SubmitResultUnguarded(p, s) == SubmitAccepted(p, s)

\* mutant of SubmitResult: a lost game does not reveal the solution (the
\* setEntries of line 532 is missing)
SubmitResultNoReveal(p, s) ==
    IF s.gameOver
    THEN s
    ELSE LET r == SubmitAccepted(p, s)
         IN  IF r.gameOver /\ ~r.gameWon THEN [r EXCEPT !.entries = s.entries] ELSE r

\* lines 479-535 on the session values the handler's closure holds
SubmitResult(p, s) == IF s.gameOver THEN s ELSE SubmitAccepted(p, s)

----------------------------------------------------------------------------
(* Inputs of the model *)

\* keydown events: e.key and e.shiftKey
KeyEvents ==
    {[key |-> k, shiftKey |-> FALSE] :
        k \in {"a", "B", "Backspace", "Tab", "ArrowUp", "ArrowDown",
               "ArrowLeft", "ArrowRight", "Enter"}}
    \cup {[key |-> "Tab", shiftKey |-> TRUE]}

----------------------------------------------------------------------------
(* Persistence, lines 389-426 *)

\* lines 420-424: JSON.stringify({ entries, attempts, puzzleKey })
StoredRecord(p, e, a) ==
    [kind |-> "record", entries |-> e, attempts |-> a, puzzleKey |-> PuzzleKey(p)]

\* lines 418-426: the save effect of a commit whose puzzle is p
SaveItem(st, p, e, a) == IF p # NoPuzzle THEN StoredRecord(p, e, a) ELSE st

\* line 426: the save effect runs after a commit that changed a dependency
SaveAfterCommit(p, e, a) ==
    IF <<e, a, p>> # <<entries, attempts, puzzle>>
    THEN SaveItem(storage, p, e, a)
    ELSE storage

\* mutant of LoadUpdate: a stored record is restored whatever its puzzleKey
LoadUpdateAnyKey(st, p) ==
    IF p = NoPuzzle \/ st.kind # "record"
    THEN NoUpdate
    ELSE [kind |-> "set", entries |-> st.entries, attempts |-> st.attempts]

\* lines 390-415: what the load effect schedules and leaves in storage
LoadUpdate(st, p) ==
    IF p = NoPuzzle \/ st.kind # "record"
    THEN NoUpdate
    ELSE IF st.puzzleKey = PuzzleKey(p)
         THEN [kind |-> "set", entries |-> st.entries, attempts |-> st.attempts]
         ELSE [kind |-> "set", entries |-> EmptyMap, attempts |-> 0]

LoadStorage(st, p) ==
    IF p # NoPuzzle /\ st.kind = "record" /\ st.puzzleKey # PuzzleKey(p)
    THEN Absent
    ELSE st

----------------------------------------------------------------------------
(* Input handlers, lines 458-477 and 550-595 *)

\* lines 458-466
clearActive(e, cell, over) ==
    IF cell = NoCell \/ over
    THEN e
    ELSE IF Get(e, cell) = "" THEN e ELSE [e EXCEPT ![cell] = ""]

\* mutant of setActiveValue: the new object is built without ...prev
setActiveValueAlone(e, key, val, over) ==
    IF over
    THEN e
    ELSE IF key \in DOMAIN e /\ e[key] = val THEN e ELSE (key :> val)

\* lines 468-477
setActiveValue(e, key, val, over) ==
    IF over
    THEN e
    ELSE IF key \in DOMAIN e /\ e[key] = val THEN e ELSE (key :> val) @@ e

\* e.key.toUpperCase(), line 589
LowerCase == <<"a", "b", "c", "d", "e", "f", "g", "h", "i", "j", "k", "l", "m",
               "n", "o", "p", "q", "r", "s", "t", "u", "v", "w", "x", "y", "z">>
UpperCase == <<"A", "B", "C", "D", "E", "F", "G", "H", "I", "J", "K", "L", "M",
               "N", "O", "P", "Q", "R", "S", "T", "U", "V", "W", "X", "Y", "Z">>
UpperOf ==
    [k \in {LowerCase[i] : i \in 1..26} |->
        UpperCase[CHOOSE i \in 1..26 : LowerCase[i] = k]]
toUpperCase(k) ==
    IF k \in DOMAIN UpperOf
    THEN UpperOf[k]
    ELSE IF k = "Enter" THEN "ENTER" ELSE k

\* mutant of TabTarget: e.shiftKey is not looked at, Tab always moves forward
TabTargetForward(p, cell, shiftKey) ==
    LET sorted == sortedCells(p)
        n == Len(sorted)
        idx == IF \E i \in 1..n : Key(sorted[i]) = cell
               THEN (CHOOSE i \in 1..n : Key(sorted[i]) = cell) - 1
               ELSE -1
        nextIdx == (idx + 1) % n
    IN  Key(sorted[nextIdx + 1])

\* lines 564-569
TabTarget(p, cell, shiftKey) ==
    LET sorted == sortedCells(p)
        n == Len(sorted)
        idx == IF \E i \in 1..n : Key(sorted[i]) = cell
               THEN (CHOOSE i \in 1..n : Key(sorted[i]) = cell) - 1
               ELSE -1
        nextIdx == IF shiftKey THEN (idx - 1 + n) % n ELSE (idx + 1) % n
    IN  Key(sorted[nextIdx + 1])

\* mutant of ArrowTarget: the hasCell test of lines 584-585 is missing
ArrowTargetUnchecked(p, cell, key) ==
    LET delta == CASE key = "ArrowUp" -> <<0, -1>>
                   [] key = "ArrowDown" -> <<0, 1>>
                   [] key = "ArrowLeft" -> <<-1, 0>>
                   [] key = "ArrowRight" -> <<1, 0>>
    IN  <<cell[1] + delta[1], cell[2] + delta[2]>>

\* lines 573-587
ArrowTarget(p, cell, key) ==
    LET delta == CASE key = "ArrowUp" -> <<0, -1>>
                   [] key = "ArrowDown" -> <<0, 1>>
                   [] key = "ArrowLeft" -> <<-1, 0>>
                   [] key = "ArrowRight" -> <<1, 0>>
        nx == cell[1] + delta[1]
        ny == cell[2] + delta[2]
        cells == initialCells(p)
        hasCell == \E i \in 1..Len(cells) : cells[i].x = nx /\ cells[i].y = ny
    IN  IF hasCell THEN <<nx, ny>> ELSE cell

ArrowKeys == {"ArrowUp", "ArrowDown", "ArrowLeft", "ArrowRight"}

\* lines 551-593: the entries after the key
KeyEntries(p, s, e) ==
    IF s.activeCell = NoCell \/ s.gameOver
    THEN s.entries
    ELSE IF e.key = "Backspace"
         THEN clearActive(s.entries, s.activeCell, s.gameOver)
         ELSE IF e.key = "Tab" \/ e.key \in ArrowKeys
              THEN s.entries
              ELSE IF toUpperCase(e.key) \in Alphabet
                   THEN setActiveValue(s.entries, s.activeCell,
                                       toUpperCase(e.key), s.gameOver)
                   ELSE s.entries

\* lines 551-593: the active cell after the key
KeyActiveCell(p, s, e) ==
    IF s.activeCell = NoCell \/ s.gameOver
    THEN s.activeCell
    ELSE IF e.key = "Backspace"
         THEN s.activeCell
         ELSE IF e.key = "Tab"
              THEN TabTarget(p, s.activeCell, e.shiftKey)
              ELSE IF e.key \in ArrowKeys
                   THEN ArrowTarget(p, s.activeCell, e.key)
                   ELSE s.activeCell

----------------------------------------------------------------------------
(* Session state machine *)

Current ==
    [entries |-> entries, attempts |-> attempts, activeCell |-> activeCell,
     cellStates |-> cellStates, gameOver |-> gameOver, gameWon |-> gameWon]

\* line 631: the board and its buttons are rendered
Rendered == puzzle # NoPuzzle /\ ~loading

\* no passive effect and no scheduled update is outstanding
Settled == effects = <<>> /\ queued = NoUpdate

CellKeys(p) == {Key(initialCells(p)[i]) : i \in 1..Len(initialCells(p))}

\* the generator's variables while the session is followed
GenIdle ==
    /\ gpc = "off"
    /\ horizontalWord = <<>>
    /\ requiredVerticalLengths = <<>>
    /\ usedWords = {}
    /\ promises = <<>>
    /\ progress = [current |-> 0, total |-> 0]
    /\ returned = NoPuzzle

\* the resolver's variables while no call of it is followed on its own
ResIdle ==
    /\ rpc = "off"
    /\ resPuzzle = NoPuzzle
    /\ resCells = <<>>

\* lines 319-323 and 380-387, then the mount effect (342-357) starts generating
AppInit ==
    /\ puzzle = NoPuzzle
    /\ loading = TRUE
    /\ entries = EmptyMap
    /\ attempts = 0
    /\ activeCell = NoCell
    /\ cellStates = EmptyMap
    /\ gameOver = FALSE
    /\ gameWon = FALSE
    /\ storage = Absent
    /\ effects = <<>>
    /\ queued = NoUpdate
    /\ genBy = "mount"

Init == AppInit /\ GenIdle /\ ResIdle

\* lines 348-349 and 354 (617-618 and 622): generatePuzzle resolved; the commit
\* leaves the load effect and the save effect to run, in that order
PuzzleArrives(p) ==
    /\ loading
    /\ puzzle' = p
    /\ loading' = FALSE
    /\ effects' = <<"load", "save">>
    /\ UNCHANGED <<genVars, resVars, session, storage, queued, genBy>>

\* lines 350-354 (619-622): generatePuzzle rejected
GenerationFails ==
    /\ loading
    /\ loading' = FALSE
    /\ UNCHANGED <<genVars, resVars, puzzle, session, storage, effects, queued, genBy>>

\* lines 390-415
LoadEffect ==
    /\ effects # <<>>
    /\ Head(effects) = "load"
    /\ queued' = LoadUpdate(storage, puzzle)
    /\ storage' = LoadStorage(storage, puzzle)
    /\ effects' = Tail(effects)
    /\ UNCHANGED <<genVars, resVars, puzzle, loading, session, genBy>>

\* lines 418-426, with the entries and attempts of the render it belongs to
SaveEffect ==
    /\ effects # <<>>
    /\ Head(effects) = "save"
    /\ storage' = SaveItem(storage, puzzle, entries, attempts)
    /\ effects' = Tail(effects)
    /\ UNCHANGED <<genVars, resVars, puzzle, loading, session, queued, genBy>>

\* mutant of Rerender: the save effect does not depend on entries and attempts
RerenderWithoutSave ==
    /\ effects = <<>>
    /\ queued # NoUpdate
    /\ entries' = queued.entries
    /\ attempts' = queued.attempts
    /\ queued' = NoUpdate
    /\ UNCHANGED <<genVars, resVars,
                   puzzle, loading, activeCell, cellStates, gameOver, gameWon,
                   storage, effects, genBy>>

\* lines 399-400 and 407-408 take effect: the render after the load effect,
\* whose changed entries make the save effect run again (line 426)
Rerender ==
    /\ effects = <<>>
    /\ queued # NoUpdate
    /\ entries' = queued.entries
    /\ attempts' = queued.attempts
    /\ queued' = NoUpdate
    /\ effects' = <<"save">>
    /\ UNCHANGED <<genVars, resVars,
                   puzzle, loading, activeCell, cellStates, gameOver, gameWon,
                   storage, genBy>>

\* line 685
CellClick(key) ==
    /\ Rendered /\ Settled
    /\ key \in CellKeys(puzzle)
    /\ activeCell' = IF gameOver THEN activeCell ELSE key
    /\ UNCHANGED <<genVars, resVars,
                   puzzle, loading, entries, attempts, cellStates, gameOver,
                   gameWon, storage, effects, queued, genBy>>

\* lines 550-600: a keydown on the window, or a key of the on-screen keyboard
handleGlobalKeyPress(e) ==
    /\ Settled
    /\ entries' = KeyEntries(puzzle, Current, e)
    /\ activeCell' = KeyActiveCell(puzzle, Current, e)
    /\ storage' = SaveAfterCommit(puzzle, entries', attempts)
    /\ UNCHANGED <<genVars, resVars,
                   puzzle, loading, attempts, cellStates, gameOver, gameWon,
                   effects, queued, genBy>>

\* line 707
ClearClick ==
    /\ Rendered /\ Settled
    /\ entries' = IF activeCell # NoCell /\ ~gameOver
                  THEN clearActive(entries, activeCell, gameOver)
                  ELSE entries
    /\ storage' = SaveAfterCommit(puzzle, entries', attempts)
    /\ UNCHANGED <<genVars, resVars,
                   puzzle, loading, attempts, activeCell, cellStates, gameOver,
                   gameWon, effects, queued, genBy>>

\* lines 479-547 and 714
handleSubmit ==
    /\ Rendered /\ Settled
    /\ attempts < AttemptsCap
    /\ LET r == SubmitResult(puzzle, Current)
       IN  /\ entries' = r.entries
           /\ attempts' = r.attempts
           /\ cellStates' = r.cellStates
           /\ gameOver' = r.gameOver
           /\ gameWon' = r.gameWon
           /\ storage' = SaveAfterCommit(puzzle, r.entries, r.attempts)
    /\ UNCHANGED <<genVars, resVars,
                   puzzle, loading, activeCell, effects, queued, genBy>>

\* mutant of handleNewGame: line 615 (removeItem) is missing
handleNewGameKeepsItem ==
    /\ Rendered /\ Settled
    /\ loading' = TRUE
    /\ puzzle' = NoPuzzle
    /\ entries' = EmptyMap
    /\ attempts' = 0
    /\ cellStates' = EmptyMap
    /\ gameOver' = FALSE
    /\ gameWon' = FALSE
    /\ activeCell' = NoCell
    /\ genBy' = "newGame"
    /\ UNCHANGED <<genVars, resVars, storage, effects, queued>>

\* lines 604-625 and 701
handleNewGame ==
    /\ Rendered /\ Settled
    /\ loading' = TRUE
    /\ puzzle' = NoPuzzle
    /\ entries' = EmptyMap
    /\ attempts' = 0
    /\ cellStates' = EmptyMap
    /\ gameOver' = FALSE
    /\ gameWon' = FALSE
    /\ activeCell' = NoCell
    /\ storage' = Absent
    /\ genBy' = "newGame"
    /\ UNCHANGED <<genVars, resVars, effects, queued>>

\* the page is loaded again: the component state is constructed anew, the
\* stored item survives unless it was damaged in between
Reload(damaged) ==
    /\ Settled
    /\ puzzle' = NoPuzzle
    /\ loading' = TRUE
    /\ entries' = EmptyMap
    /\ attempts' = 0
    /\ activeCell' = NoCell
    /\ cellStates' = EmptyMap
    /\ gameOver' = FALSE
    /\ gameWon' = FALSE
    /\ storage' = IF damaged THEN Corrupt ELSE storage
    /\ genBy' = "mount"
    /\ UNCHANGED <<genVars, resVars, effects, queued>>

Next ==
    \/ \E p \in Puzzles : PuzzleArrives(p)
    \/ GenerationFails
    \/ LoadEffect
    \/ SaveEffect
    \/ Rerender
    \/ \E key \in UNION {CellKeys(p) : p \in Puzzles} : CellClick(key)
    \/ \E e \in KeyEvents : handleGlobalKeyPress(e)
    \/ ClearClick
    \/ handleSubmit
    \/ handleNewGame
    \/ \E damaged \in BOOLEAN : Reload(damaged)

Spec == Init /\ [][Next]_vars

----------------------------------------------------------------------------
(* Puzzle generator, lines 11-83 *)

\* word.toUpperCase(), lines 18 and 39
WordUpper(w) == [i \in 1..Len(w) |-> toUpperCase(w[i])]

\* w.includes(letter), line 40
Includes(w, letter) == \E i \in 1..Len(w) : w[i] = letter

\* answers of the word source to the horizontal query (line 15); the source
\* is not held to the requested length
HorizontalAnswers ==
    { <<>>,
      << <<"c", "r", "e", "a", "t", "e">> >>,
      << <<"c", "r", "e", "a", "t", "e", "d">> >> }

\* answers of the word source to a vertical query (line 33): each is given
\* as it is or cut down to the words of the length asked for; the last one
\* repeats a horizontal word
VerticalAnswers ==
    { <<>>,
      << <<"c", "h", "i", "l", "l", "y">>, <<"t", "e", "a", "m">>,
         <<"i", "r", "o", "n", "y">>, <<"h", "o", "n", "e", "y">>,
         <<"m", "e", "n", "u">>,
         <<"t", "o", "w", "n">>, <<"d", "o", "g">> >>,
      << <<"c", "r", "e", "a", "t", "e", "d">> >> }

\* outcomes of the shuffle of line 26
Shuffles == { <<6, 5, 5, 4, 4, 4>>, <<4, 4, 5, 4, 5, 6>> }

Pending == [status |-> "pending"]
NullResult == [status |-> "null"]          \* return null, line 50

\* lines 13-15: the call runs to the await of the horizontal fetch
GenInit ==
    /\ gpc = "horizontal"
    /\ horizontalWord = <<>>
    /\ requiredVerticalLengths = <<>>
    /\ usedWords = {}
    /\ promises = <<>>
    /\ progress = [current |-> 0, total |-> 7]
    /\ returned = NoPuzzle

\* lines 16-17: an empty answer to the horizontal query throws
HorizontalEmpty(horizWords) ==
    /\ gpc = "horizontal"
    /\ Len(horizWords) = 0
    /\ gpc' = "thrown"
    /\ UNCHANGED <<appVars, resVars, horizontalWord, requiredVerticalLengths, usedWords,
                   promises, progress, returned>>

\* lines 16-33: the horizontal word is chosen, the lengths are shuffled and one
\* query per letter is sent
HorizontalFetched(horizWords, n, shuffled) ==
    /\ gpc = "horizontal"
    /\ Len(horizWords) # 0
    /\ n \in 1..Len(horizWords)
    /\ horizontalWord' = WordUpper(horizWords[n])
    /\ progress' = [current |-> 1, total |-> 7]
    /\ usedWords' = {horizontalWord'}
    /\ requiredVerticalLengths' = shuffled
    /\ promises' = [index \in 0..(Len(horizontalWord') - 1) |-> Pending]
    /\ gpc' = "verticals"
    /\ UNCHANGED <<appVars, resVars, returned>>

\* lines 30-32: the length asked for at a position ('?'.repeat(undefined) is
\* the empty pattern past the end of requiredVerticalLengths)
WordLength(index) ==
    IF index + 1 \in DOMAIN requiredVerticalLengths
    THEN requiredVerticalLengths[index + 1]
    ELSE 0

\* the words of an answer that have the length asked for
OfLength(vertWords, wordLength) ==
    SelectSeq(vertWords, LAMBDA w : Len(w) = wordLength)

\* mutant of AvailableWords: the !usedWords.has(w) test of line 40 is missing
AvailableWordsAnyUsed(vertWords, letter, used) ==
    SelectSeq([i \in 1..Len(vertWords) |-> WordUpper(vertWords[i])],
              LAMBDA w : Includes(w, letter))

\* lines 38-40
AvailableWords(vertWords, letter, used) ==
    SelectSeq([i \in 1..Len(vertWords) |-> WordUpper(vertWords[i])],
              LAMBDA w : Includes(w, letter) /\ w \notin used)

\* lines 34-50: the callback of position index resumes with its answer
VerticalFetched(index, vertWords) ==
    /\ gpc = "verticals"
    /\ index \in DOMAIN promises
    /\ promises[index] = Pending
    /\ LET letter == horizontalWord[index + 1]
           availableWords == AvailableWords(vertWords, letter, usedWords)
       IN  IF Len(vertWords) > 0 /\ Len(availableWords) > 0
           THEN \E n \in 1..Len(availableWords) :
                    /\ usedWords' = usedWords \cup {availableWords[n]}
                    /\ promises' = [promises EXCEPT ![index] =
                                       [word |-> availableWords[n],
                                        intersectIndex |-> index]]
           ELSE /\ usedWords' = usedWords
                /\ promises' = [promises EXCEPT ![index] = NullResult]
    /\ progress' = [current |-> 1 + index + 1, total |-> 7]
    /\ UNCHANGED <<appVars, resVars, gpc, horizontalWord, requiredVerticalLengths, returned>>

\* line 53: (await Promise.all(promises)).filter(Boolean)
RECURSIVE Results(_, _)
Results(proms, index) ==
    IF index \notin DOMAIN proms
    THEN <<>>
    ELSE IF proms[index] = NullResult
         THEN Results(proms, index + 1)
         ELSE <<proms[index]>> \o Results(proms, index + 1)

\* lines 62-65
Counts(results, len) == Cardinality({i \in 1..Len(results) : Len(results[i].word) = len})

\* lines 67-70
HasRequiredCounts(results) ==
    Counts(results, 6) = 1 /\ Counts(results, 5) = 2 /\ Counts(results, 4) = 3

AllSettled == \A index \in DOMAIN promises : promises[index] # Pending

\* mutant of Retry: the attempt is given up as soon as one position has
\* returned null, without waiting for the other callbacks
RetryEarly ==
    /\ gpc = "verticals"
    /\ \E index \in DOMAIN promises : promises[index] = NullResult
    /\ gpc' = "horizontal"
    /\ horizontalWord' = <<>>
    /\ requiredVerticalLengths' = <<>>
    /\ usedWords' = {}
    /\ promises' = <<>>
    /\ progress' = [current |-> 0, total |-> 7]
    /\ UNCHANGED <<appVars, resVars, returned>>

\* lines 56-59 and 72-75: a gate fails and generatePuzzle is called again,
\* which runs to the await of its horizontal fetch
Retry ==
    /\ gpc = "verticals"
    /\ AllSettled
    /\ LET results == Results(promises, 0)
       IN  Len(results) # Len(horizontalWord) \/ ~HasRequiredCounts(results)
    /\ gpc' = "horizontal"
    /\ horizontalWord' = <<>>
    /\ requiredVerticalLengths' = <<>>
    /\ usedWords' = {}
    /\ promises' = <<>>
    /\ progress' = [current |-> 0, total |-> 7]
    /\ UNCHANGED <<appVars, resVars, returned>>

\* lines 77-82
ReturnPuzzle ==
    /\ gpc = "verticals"
    /\ AllSettled
    /\ LET results == Results(promises, 0)
       IN  /\ Len(results) = Len(horizontalWord)
           /\ HasRequiredCounts(results)
           /\ returned' = [horizontal |-> [word |-> horizontalWord, x |-> 0, y |-> 4],
                           verticals |-> results]
    /\ gpc' = "done"
    /\ UNCHANGED <<appVars, resVars, horizontalWord, requiredVerticalLengths, usedWords,
                   promises, progress>>

GenNext ==
    \/ \E horizWords \in HorizontalAnswers : HorizontalEmpty(horizWords)
    \/ \E horizWords \in HorizontalAnswers, n \in 1..2, shuffled \in Shuffles :
           HorizontalFetched(horizWords, n, shuffled)
    \/ \E index \in 0..6, vertWords \in VerticalAnswers, exact \in BOOLEAN :
           VerticalFetched(index, IF exact
                                  THEN OfLength(vertWords, WordLength(index))
                                  ELSE vertWords)
    \/ Retry
    \/ ReturnPuzzle

InitGen == AppInit /\ GenInit /\ ResIdle

SpecGen == InitGen /\ [][GenNext]_vars

\* the event loop resumes a callback whose answer has arrived and runs the
\* code after Promise.all once every callback has returned; which answer the
\* word source gives is not constrained
SpecGenFair == SpecGen /\ WF_vars(GenNext)

----------------------------------------------------------------------------
(* One call of the grid resolver, lines 88-115 *)

\* the argument: a horizontal word at the generator's place (lines 79-82)
\* and up to three verticals, in any order and on any position of it; the
\* words of one position agree where they overlap or not
ResHorizontal == [word |-> <<"A", "B">>, x |-> 0, y |-> 4]

ResVerticalWords ==
    { <<"A", "B">>, <<"A", "C">>, <<"C", "A">>, <<"B", "A", "A">> }

ResVerticals ==
    [word : ResVerticalWords, intersectIndex : 0..(Len(ResHorizontal.word) - 1)]

ResPuzzles ==
    {[horizontal |-> ResHorizontal, verticals |-> vs] :
        vs \in UNION {[1..n -> ResVerticals] : n \in 0..3}}

InitRes ==
    /\ AppInit
    /\ GenIdle
    /\ rpc = "call"
    /\ resPuzzle \in ResPuzzles
    /\ resCells = <<>>

\* lines 89-114
Resolve ==
    /\ rpc = "call"
    /\ resCells' = getLetterPositions(resPuzzle)
    /\ rpc' = "return"
    /\ UNCHANGED <<appVars, genVars, resPuzzle>>

ResNext == Resolve

SpecRes == InitRes /\ [][ResNext]_vars

----------------------------------------------------------------------------
(* Claims about the session state machine, checked under Spec *)

\* the resolved cells of a puzzle as (x, y, letter) records
Cells(p) == {initialCells(p)[i] : i \in 1..Len(initialCells(p))}

\* every resolved cell's entry equals its letter
AllCorrect(p, e) == \A c \in Cells(p) : Get(e, <<c.x, c.y>>) = c.letter

ReloadStep == \E damaged \in BOOLEAN : Reload(damaged)

\* C1: a submit made while gameOver is false sets gameWon and gameOver exactly
\* when every resolved cell's entry equals its letter; a winning submit adds
\* one to attempts and leaves entries as they were.
C1_WinIffAllCorrect ==
    [][(handleSubmit /\ ~gameOver) =>
          /\ (gameWon' /\ gameOver') <=> AllCorrect(puzzle, entries)
          /\ AllCorrect(puzzle, entries) =>
                 (attempts' = attempts + 1 /\ entries' = entries)]_vars

\* C1 witness: a game won by its first submit
C1_Witness ==
    /\ Rendered /\ gameWon /\ gameOver /\ attempts = 1
    /\ AllCorrect(puzzle, entries)
    /\ \A k \in DOMAIN cellStates : cellStates[k].state = "correct"

\* C2: a non-winning submit made while gameOver is false ends the game as
\* lost, with the solution revealed in the entries, when the incremented
\* attempt count reaches MAX_ATTEMPTS, and otherwise leaves gameOver false
\* and the entries unchanged; a winning submit on the last attempt wins.
C2_LossRevealsSolution ==
    [][(handleSubmit /\ ~gameOver) =>
          /\ (~AllCorrect(puzzle, entries) /\ attempts + 1 >= MAX_ATTEMPTS) =>
                 /\ gameOver' /\ ~gameWon'
                 /\ AllCorrect(puzzle, entries')
                 /\ attempts' = attempts + 1
          /\ (~AllCorrect(puzzle, entries) /\ attempts + 1 < MAX_ATTEMPTS) =>
                 /\ ~gameOver' /\ ~gameWon'
                 /\ entries' = entries
                 /\ attempts' = attempts + 1
          /\ (AllCorrect(puzzle, entries) /\ attempts + 1 = MAX_ATTEMPTS) =>
                 (gameWon' /\ gameOver')]_vars

\* C2 witness: a game lost on the sixth submit, the solution revealed
C2_Witness ==
    /\ Rendered /\ gameOver /\ ~gameWon /\ attempts = MAX_ATTEMPTS
    /\ AllCorrect(puzzle, entries)
    /\ \E k \in DOMAIN cellStates : cellStates[k].state # "correct"

\* C3: once gameOver is true, every step other than a New Game request (or a
\* reload of the page) leaves entries, attempts, activeCell, cellStates,
\* gameOver and gameWon unchanged.
C3_TerminalUntilNewGame ==
    [][(gameOver /\ ~handleNewGame /\ ~ReloadStep) => UNCHANGED session]_vars

\* C3 witness: a lost game with an active cell, where each input is accepted
\* by the handlers' callers
C3_Witness ==
    /\ Rendered /\ Settled /\ gameOver /\ ~gameWon
    /\ activeCell \in CellKeys(puzzle)
    /\ attempts = MAX_ATTEMPTS

\* C4: attempts never exceeds MAX_ATTEMPTS in a reachable state, restored
\* sessions included.
C4_AttemptsBounded == attempts <= MAX_ATTEMPTS

\* the tri-state of an entered letter against a word at 1-based position i
WordRule(letter, word, i) ==
    IF letter = word[i]
    THEN "correct"
    ELSE IF letter # "" /\ (\E j \in 1..Len(word) : word[j] = letter)
         THEN "present"
         ELSE "incorrect"

\* C5: after a submit, the cell of every position i of the horizontal word
\* carries the tri-state of its scored letter against the horizontal word,
\* intersections with vertical words included.
C5_HorizontalScoredByHorizontalWord ==
    Rendered =>
        \A i \in 1..Len(puzzle.horizontal.word) :
            LET k == <<puzzle.horizontal.x + (i - 1), puzzle.horizontal.y>>
            IN  k \in DOMAIN cellStates =>
                    cellStates[k].state =
                        WordRule(cellStates[k].letter, puzzle.horizontal.word, i)

\* the last submit of this session scored the entries as they are now
ScoredTheseEntries ==
    /\ cellStates # EmptyMap
    /\ \A k \in DOMAIN cellStates : cellStates[k].letter = Get(entries, k)

\* C6: a submit that follows a submit of the same entries, gameOver false
\* before each, adds one to attempts and leaves the cellStates map as the
\* first submit made it.
C6_SubmitIdempotentOnCellStates ==
    [][(handleSubmit /\ ~gameOver /\ ScoredTheseEntries) =>
          (cellStates' = cellStates /\ attempts' = attempts + 1)]_vars

\* C6 witness: two submits of the same entries, one letter scored present
C6_Witness ==
    /\ Rendered /\ ~gameOver /\ attempts >= 2
    /\ ScoredTheseEntries
    /\ \E k \in DOMAIN cellStates : cellStates[k].state = "present"

\* the concatenation of a puzzle's cell letters
Fingerprint(p) == [i \in 1..Len(initialCells(p)) |-> initialCells(p)[i].letter]

\* C7: the load effect schedules the stored entries and attempts exactly when
\* the stored item parses and carries the new puzzle's fingerprint; otherwise
\* the session is and stays empty with attempts 0, a record of another
\* puzzle is removed, the effects run on, and once they have run storage
\* holds a record of the current puzzle.
C7_RestoreIffFingerprintMatches ==
    /\ [][LoadEffect =>
            IF storage.kind = "record" /\ storage.puzzleKey = Fingerprint(puzzle)
            THEN /\ queued' = [kind |-> "set", entries |-> storage.entries,
                               attempts |-> storage.attempts]
                 /\ storage' = storage
            ELSE /\ entries = EmptyMap /\ attempts = 0
                 /\ \/ queued' = NoUpdate
                    \/ (queued'.entries = EmptyMap /\ queued'.attempts = 0)
                 /\ storage.kind = "record" => storage' = Absent
                 /\ effects' = <<"save">>]_vars
    /\ [][Rerender => (entries' = queued.entries /\ attempts' = queued.attempts)]_vars
    /\ [](Rendered /\ Settled =>
            storage.kind = "record" /\ storage.puzzleKey = Fingerprint(puzzle))

\* C7 witness: a restored session (attempts made, nothing scored on this page)
C7_Witness ==
    /\ Rendered /\ Settled
    /\ attempts > 0 /\ entries # EmptyMap /\ cellStates = EmptyMap

FreshSession ==
    /\ entries = EmptyMap /\ attempts = 0 /\ cellStates = EmptyMap
    /\ ~gameOver /\ ~gameWon /\ activeCell = NoCell

\* C9: a New Game request leaves an empty session, no puzzle, no stored
\* record and a generation in progress; from then until the effects of the
\* new puzzle's arrival have run (the page not being reloaded meanwhile) the
\* session stays empty and storage holds nothing but the empty session of
\* the new puzzle.
C9_NewGameResetsEverything ==
    /\ [][handleNewGame =>
            (FreshSession' /\ puzzle' = NoPuzzle /\ storage' = Absent /\ loading')]_vars
    /\ [][(genBy = "newGame" /\ (loading \/ ~Settled) /\ ~ReloadStep) =>
            /\ FreshSession'
            /\ \/ storage' = Absent
               \/ storage' = [kind |-> "record", entries |-> EmptyMap, attempts |-> 0,
                              puzzleKey |-> Fingerprint(puzzle')]]_vars

\* C9 witness: the session that starts when the puzzle of a New Game arrives
C9_Witness ==
    /\ genBy = "newGame" /\ Rendered /\ Settled /\ FreshSession
    /\ storage.kind = "record"

\* the number of cells before a coordinate in row-major order
RowMajorRank(p, k) ==
    Cardinality({c \in Cells(p) : c.y < k[2] \/ (c.y = k[2] /\ c.x < k[1])})

TabEvent(shift) == [key |-> "Tab", shiftKey |-> shift]

\* C17: with gameOver false and the active cell at index i of the cells in
\* row-major order (y, then x), Tab makes the cell at (i + 1) mod n active and
\* Shift+Tab the cell at (i - 1) mod n, so the other of the two leads back;
\* entries and attempts are unchanged.
C17_TabCyclesRowMajor ==
    [][\A shift \in BOOLEAN :
          (/\ handleGlobalKeyPress(TabEvent(shift))
           /\ Rendered /\ ~gameOver
           /\ activeCell \in CellKeys(puzzle)) =>
              LET n == Cardinality(CellKeys(puzzle))
                  i == RowMajorRank(puzzle, activeCell)
              IN  /\ activeCell' \in CellKeys(puzzle)
                  /\ RowMajorRank(puzzle, activeCell') =
                         (IF shift THEN (i + n - 1) % n ELSE (i + 1) % n)
                  /\ TabTarget(puzzle, activeCell', ~shift) = activeCell
                  /\ entries' = entries /\ attempts' = attempts]_vars

\* C17 witness: the active cell is the first of three in row-major order, a
\* cell the resolver placed last, reached from the last one by Tab
C17_Witness ==
    /\ Rendered /\ Settled /\ ~gameOver
    /\ Cardinality(CellKeys(puzzle)) = 3
    /\ activeCell \in CellKeys(puzzle)
    /\ RowMajorRank(puzzle, activeCell) = 0
    /\ Key(initialCells(puzzle)[3]) = activeCell
    /\ TabTarget(puzzle, Key(sortedCells(puzzle)[3]), FALSE) = activeCell

\* the coordinate next to a coordinate in the direction of an arrow key
Adjacent(k, arrow) ==
    IF arrow = "ArrowUp" THEN <<k[1], k[2] - 1>>
    ELSE IF arrow = "ArrowDown" THEN <<k[1], k[2] + 1>>
    ELSE IF arrow = "ArrowLeft" THEN <<k[1] - 1, k[2]>>
    ELSE <<k[1] + 1, k[2]>>

\* C18: an arrow key makes the adjacent coordinate in its direction active
\* when a cell of the puzzle is there and changes nothing otherwise; in every
\* state activeCell is none or the key of a cell of the current puzzle.
C18_ActiveCellOnGrid ==
    /\ [](activeCell = NoCell
            \/ (puzzle # NoPuzzle /\ activeCell \in CellKeys(puzzle)))
    /\ [][\A arrow \in ArrowKeys :
            (/\ handleGlobalKeyPress([key |-> arrow, shiftKey |-> FALSE])
             /\ activeCell # NoCell /\ ~gameOver) =>
                /\ activeCell' = IF Adjacent(activeCell, arrow) \in CellKeys(puzzle)
                                 THEN Adjacent(activeCell, arrow)
                                 ELSE activeCell
                /\ entries' = entries]_vars

\* C18 witness: an active cell with a cell of the puzzle next to it in one
\* direction and none in another, where arrow keys are accepted
C18_Witness ==
    /\ Rendered /\ Settled /\ ~gameOver
    /\ activeCell \in CellKeys(puzzle)
    /\ Adjacent(activeCell, "ArrowDown") \in CellKeys(puzzle)
    /\ Adjacent(activeCell, "ArrowUp") \notin CellKeys(puzzle)
    /\ Adjacent(activeCell, "ArrowLeft") \notin CellKeys(puzzle)
    /\ entries # EmptyMap

\* the letter keys among the key events, and the letter each stands for
LetterEvents ==
    {e \in KeyEvents : \E i \in 1..26 : e.key \in {LowerCase[i], UpperCase[i]}}

LetterOf(e) ==
    UpperCase[CHOOSE i \in 1..26 : e.key \in {LowerCase[i], UpperCase[i]}]

BackspaceEvent == [key |-> "Backspace", shiftKey |-> FALSE]

\* what ClearClick makes of the entries
ClearEntries == clearActive(entries, activeCell, gameOver)

\* map next gives the cell the value val and every other key what map e gives
SetsOnly(e, next, cell, val) ==
    /\ Get(next, cell) = val
    /\ \A k \in (DOMAIN e \cup DOMAIN next) \ {cell} : Get(next, k) = Get(e, k)

EntryStep ==
    \/ \E e \in LetterEvents \cup {BackspaceEvent} : handleGlobalKeyPress(e)
    \/ ClearClick

\* C19 as claimed: a letter key sets the active cell's entry to the
\* uppercase letter and Backspace / Clear sets it to empty, whether or not
\* the game is over; no other entry changes, attempts, cellStates,
\* activeCell, gameOver and gameWon are unchanged, and nothing changes when
\* there is no active cell.
C19_KeySetsActiveEntry ==
    /\ [](Rendered /\ Settled =>
            IF activeCell = NoCell
            THEN /\ \A e \in LetterEvents \cup {BackspaceEvent} :
                        KeyEntries(puzzle, Current, e) = entries
                 /\ ClearEntries = entries
            ELSE /\ \A e \in LetterEvents :
                        SetsOnly(entries, KeyEntries(puzzle, Current, e),
                                 activeCell, LetterOf(e))
                 /\ SetsOnly(entries, KeyEntries(puzzle, Current, BackspaceEvent),
                             activeCell, "")
                 /\ SetsOnly(entries, ClearEntries, activeCell, ""))
    /\ [][EntryStep =>
            UNCHANGED <<attempts, cellStates, activeCell, gameOver, gameWon>>]_vars

\* C19 as amended: the same while gameOver is false; once the game is over
\* the keys and Clear change nothing.
C19_KeySetsActiveEntryInPlay ==
    /\ [](Rendered /\ Settled =>
            IF activeCell = NoCell \/ gameOver
            THEN /\ \A e \in LetterEvents \cup {BackspaceEvent} :
                        KeyEntries(puzzle, Current, e) = entries
                 /\ ClearEntries = entries
            ELSE /\ \A e \in LetterEvents :
                        SetsOnly(entries, KeyEntries(puzzle, Current, e),
                                 activeCell, LetterOf(e))
                 /\ SetsOnly(entries, KeyEntries(puzzle, Current, BackspaceEvent),
                             activeCell, "")
                 /\ SetsOnly(entries, ClearEntries, activeCell, ""))
    /\ [][EntryStep =>
            UNCHANGED <<attempts, cellStates, activeCell, gameOver, gameWon>>]_vars

\* C19 witness: a game in progress where the active cell's entry has been
\* cleared after it was typed and another cell holds a typed letter
C19_Witness ==
    /\ Rendered /\ Settled /\ ~gameOver
    /\ activeCell \in DOMAIN entries /\ entries[activeCell] = ""
    /\ \E k \in DOMAIN entries : k # activeCell /\ entries[k] = "A"

\* the verticals of p (by index) that place a letter at coordinate k
VerticalsAt(p, k) ==
    {n \in 1..Len(p.verticals) :
        \E i \in 1..Len(VerticalCells(p, p.verticals[n])) :
            Key(VerticalCells(p, p.verticals[n])[i]) = k}

\* the state the per-word rule gives the entry at k: against the vertical
\* word placed there (the last one in verticals), else against the
\* horizontal word
ExpectedState(p, e, k) ==
    IF VerticalsAt(p, k) # {}
    THEN LET n == CHOOSE n \in VerticalsAt(p, k) :
                      \A m \in VerticalsAt(p, k) : m <= n
             placed == VerticalCells(p, p.verticals[n])
             i == CHOOSE i \in 1..Len(placed) : Key(placed[i]) = k
         IN  WordRule(Get(e, k), p.verticals[n].word, i)
    ELSE WordRule(Get(e, k), p.horizontal.word, k[1] - p.horizontal.x + 1)

\* C20: a submit made while gameOver is false leaves in cellStates one record
\* per resolved cell, holding the letter entered there and the state of the
\* per-word rule: against its only word for a cell of one word, against the
\* vertical word for a cell the horizontal word shares with a vertical.
C20_SubmitScoresPerWord ==
    [][(handleSubmit /\ ~gameOver) =>
          /\ DOMAIN cellStates' = CellKeys(puzzle)
          /\ \A k \in CellKeys(puzzle) :
                 /\ cellStates'[k].letter = Get(entries, k)
                 /\ cellStates'[k].state = ExpectedState(puzzle, entries, k)]_vars

\* C20 witness: a scored session where a shared cell carries the vertical
\* word's result and the horizontal word's rule gives another
C20_Witness ==
    /\ Rendered /\ attempts > 0
    /\ DOMAIN cellStates = CellKeys(puzzle)
    /\ \E k \in CellKeys(puzzle) :
           /\ k[2] = puzzle.horizontal.y
           /\ VerticalsAt(puzzle, k) # {}
           /\ cellStates[k].state = ExpectedState(puzzle, entries, k)
           /\ cellStates[k].state #
                  WordRule(cellStates[k].letter, puzzle.horizontal.word,
                           k[1] - puzzle.horizontal.x + 1)

\* C23: a submit made while gameOver is false records, for every resolved
\* cell, intersections of the horizontal word with a vertical included, the
\* state correct exactly when the cell's entry is its solution letter, and
\* sets gameWon exactly when every state it records is correct.
C23_CorrectNeverMasked ==
    [][(handleSubmit /\ ~gameOver) =>
          /\ \A c \in Cells(puzzle) :
                 /\ Key(c) \in DOMAIN cellStates'
                 /\ (cellStates'[Key(c)].state = "correct")
                        <=> (Get(entries, Key(c)) = c.letter)
          /\ gameWon' <=>
                 \A k \in DOMAIN cellStates' : cellStates'[k].state = "correct"]_vars

\* C23 witness: a scored, unfinished game whose intersection holds its
\* solution letter, recorded correct, beside a cell that is not correct
C23_Witness ==
    /\ Rendered /\ ~gameOver /\ attempts > 0
    /\ \E c \in Cells(puzzle) :
           /\ c.y = puzzle.horizontal.y
           /\ VerticalsAt(puzzle, Key(c)) # {}
           /\ Key(c) \in DOMAIN cellStates
           /\ cellStates[Key(c)] = [state |-> "correct", letter |-> c.letter]
    /\ \E k \in DOMAIN cellStates : cellStates[k].state = "present"

\* C24: in every state gameWon implies gameOver, and gameOver implies that
\* a puzzle is loaded and every resolved cell's entry is its solution letter.
C24_GameOverShowsSolution ==
    /\ gameWon => gameOver
    /\ gameOver => (puzzle # NoPuzzle /\ AllCorrect(puzzle, entries))

\* C24 witness: a lost game where the revealed solution has replaced a letter
\* that was entered and scored
C24_Witness ==
    /\ Rendered /\ Settled /\ gameOver /\ ~gameWon
    /\ activeCell # NoCell
    /\ \E k \in DOMAIN cellStates :
           cellStates[k].letter # "" /\ cellStates[k].letter # Get(entries, k)

\* C25: whenever a puzzle is loaded, every key of entries that holds a
\* letter is the coordinate of a cell of that puzzle, sessions restored on a
\* fingerprint match included.
C25_EntriesOnCells ==
    puzzle # NoPuzzle =>
        \A k \in DOMAIN entries : entries[k] # "" => k \in CellKeys(puzzle)

----------------------------------------------------------------------------
(* Claims about the generator, checked under SpecGen *)

\* the target multiset of vertical lengths, line 25
TargetLengths == <<6, 5, 5, 4, 4, 4>>

\* C10: a returned puzzle has one vertical per position of the horizontal
\* word, on distinct intersectIndex values, each containing the horizontal
\* letter at its intersectIndex, and its vertical lengths are the multiset
\* {6,5,5,4,4,4}, whatever lengths the word source answers with.
C10_ReturnedPuzzleShape ==
    gpc = "done" =>
        LET h == returned.horizontal.word
            v == returned.verticals
            lengths == {Len(v[i].word) : i \in 1..Len(v)}
                       \cup {TargetLengths[k] : k \in 1..Len(TargetLengths)}
        IN  /\ Len(v) = Len(h)
            /\ \A i, j \in 1..Len(v) :
                   i # j => v[i].intersectIndex # v[j].intersectIndex
            /\ \A i \in 1..Len(v) :
                   \E k \in 1..Len(v[i].word) :
                       v[i].word[k] = h[v[i].intersectIndex + 1]
            /\ \A len \in lengths :
                   Cardinality({i \in 1..Len(v) : Len(v[i].word) = len})
                       = Cardinality({k \in 1..Len(TargetLengths) :
                                         TargetLengths[k] = len})

\* C11: the horizontal word and the vertical words of a returned puzzle are
\* pairwise distinct, in whatever order the per-position callbacks resumed:
\* at every point of an attempt the words selected so far differ from each
\* other and from the horizontal word, and the returned puzzle holds them.
C11_NoWordRepeats ==
    /\ LET chosen == {index \in DOMAIN promises :
                         promises[index] \notin {Pending, NullResult}}
       IN  /\ \A i \in chosen : promises[i].word # horizontalWord
           /\ \A i, j \in chosen : i # j => promises[i].word # promises[j].word
    /\ gpc = "done" =>
           LET h == returned.horizontal.word
               v == returned.verticals
           IN  /\ \A i \in 1..Len(v) : v[i].word # h
               /\ \A i, j \in 1..Len(v) : i # j => v[i].word # v[j].word

\* C11 witness: a returned puzzle where two positions hold the same letter
\* and so had the same candidates
C11_Witness ==
    /\ gpc = "done"
    /\ \E i, j \in 1..Len(returned.verticals) :
           /\ i < j
           /\ returned.horizontal.word[i] = returned.horizontal.word[j]
           /\ Includes(returned.verticals[i].word, returned.horizontal.word[j])
           /\ Includes(returned.verticals[j].word, returned.horizontal.word[i])

\* C12: puzzle generation always terminates, by returning a puzzle or by
\* reporting a failure, for every behaviour of the word source.
C12_GenerationTerminates == <>(gpc \in {"done", "thrown"})

\* C13: an empty answer of the word source, to the horizontal query or to a
\* vertical query, makes the attempt fail and be retried; generatePuzzle
\* never raises an error to its caller because of it.
C13_EmptyAnswerNeverThrows == gpc # "thrown"

\* C14: within one attempt (every step but the retry that starts the next
\* one) each progress report carries a current value at least as large as
\* the report before it, with total 7, in whatever order the per-position
\* queries complete.
C14_ProgressNonDecreasing ==
    [][~Retry => (progress'.current >= progress.current /\ progress'.total = 7)]_vars

----------------------------------------------------------------------------
(* Claims about the grid resolver, checked under SpecRes *)

\* the cells of an array as a set of (x, y, letter) triples
CellSet(cells) == {cells[i] : i \in 1..Len(cells)}

\* the orders a sequence of n verticals can be given in
Orders(n) ==
    {f \in [1..n -> 1..n] : \A i, j \in 1..n : i # j => f[i] # f[j]}

\* C15: the resolver yields the same set of (x, y, letter) cells for a puzzle
\* and for the puzzle with its verticals in any other order.
C15_IndependentOfVerticalOrder ==
    rpc = "return" =>
        \A f \in Orders(Len(resPuzzle.verticals)) :
            LET q == [resPuzzle EXCEPT
                         !.verticals = [i \in 1..Len(resPuzzle.verticals) |->
                                           resPuzzle.verticals[f[i]]]]
            IN  CellSet(getLetterPositions(q)) = CellSet(resCells)

\* C16: when the resolver has returned cells, any two letter placements of
\* the puzzle's words on one coordinate carry the same letter: a puzzle where
\* they differ is not resolved into cells that keep one of the two letters.
C16_OverlapsAgreeOrDetected ==
    rpc = "return" =>
        LET placed == PushVerticals(resPuzzle, 1, HorizontalCells(resPuzzle))
        IN  \A i, j \in 1..Len(placed) :
                Key(placed[i]) = Key(placed[j]) =>
                    placed[i].letter = placed[j].letter

\* the letters the words of a puzzle put on coordinates, as (x, y, letter):
\* horizontal letter i (from 0) at (x + i, y); letter k of a vertical whose
\* word has the anchor letter first at j, at (x + intersectIndex, y - (j - k));
\* nothing for a vertical whose word lacks the anchor letter
Placements(p) ==
    LET h == p.horizontal
        anchorAt(v) == {i \in 1..Len(v.word) : v.word[i] = h.word[v.intersectIndex + 1]}
        first(v) == CHOOSE j \in anchorAt(v) : \A i \in anchorAt(v) : j <= i
    IN  {[letter |-> h.word[i], x |-> h.x + (i - 1), y |-> h.y] : i \in 1..Len(h.word)}
        \cup UNION {
            IF anchorAt(p.verticals[n]) = {}
            THEN {}
            ELSE {[letter |-> p.verticals[n].word[k],
                   x |-> h.x + p.verticals[n].intersectIndex,
                   y |-> h.y - (first(p.verticals[n]) - k)] :
                     k \in 1..Len(p.verticals[n].word)}
            : n \in 1..Len(p.verticals)}

\* C21: the cells returned are letters placed by that rule, one cell for
\* each coordinate a letter is placed on (the letter placed there when the
\* placements on it agree); a vertical without the anchor letter adds nothing
\* and leaves the cells of the other words as they are without it.
C21_ResolverPlacement ==
    rpc = "return" =>
        LET placed == Placements(resPuzzle)
            kept == [resPuzzle EXCEPT !.verticals =
                        SelectSeq(resPuzzle.verticals,
                                  LAMBDA v : \E i \in 1..Len(v.word) :
                                      v.word[i] = resPuzzle.horizontal.word[v.intersectIndex + 1])]
        IN  /\ CellSet(resCells) \subseteq placed
            /\ {Key(c) : c \in CellSet(resCells)} = {Key(c) : c \in placed}
            /\ \A i, j \in 1..Len(resCells) :
                   Key(resCells[i]) = Key(resCells[j]) => i = j
            /\ resCells = getLetterPositions(kept)

\* C21 witness: a resolved puzzle with a vertical that lacks its anchor
\* letter and a vertical that holds its anchor letter twice
C21_Witness ==
    /\ rpc = "return"
    /\ Len(resCells) > Len(resPuzzle.horizontal.word)
    /\ \E n \in 1..Len(resPuzzle.verticals) :
           LET v == resPuzzle.verticals[n]
           IN  \A i \in 1..Len(v.word) :
                   v.word[i] # resPuzzle.horizontal.word[v.intersectIndex + 1]
    /\ \E n \in 1..Len(resPuzzle.verticals) :
           LET v == resPuzzle.verticals[n]
           IN  Cardinality({i \in 1..Len(v.word) :
                   v.word[i] = resPuzzle.horizontal.word[v.intersectIndex + 1]}) = 2

\* no per-position query of the attempt is awaiting its answer
NoQueryInFlight == \A index \in DOMAIN promises : promises[index] # Pending

\* C22: an attempt leaves its fan-out, for a retry or for the return of the
\* puzzle, only when every per-position query of it has completed, and the
\* horizontal query of an attempt is awaited with no query of another
\* attempt in flight.
C22_JoinBeforeGates ==
    /\ [][(gpc = "verticals" /\ gpc' # "verticals") => NoQueryInFlight]_vars
    /\ [](gpc = "horizontal" => DOMAIN promises = {})

\* C22 witness: the join of an attempt in which a position found no word, so
\* that a gate fails and a retry follows
C22_Witness ==
    /\ gpc = "verticals"
    /\ Len(horizontalWord) = 6
    /\ NoQueryInFlight
    /\ \E index \in DOMAIN promises : promises[index] = NullResult
    /\ \E index \in DOMAIN promises : promises[index] # NullResult
    /\ ENABLED Retry

====
